---- MODULE Spec2Model ----
(***************************************************************************)
(* Model of ftir_stack_plot.py: a batch script that loads every CSV file   *)
(* under INPUT_DIR, detects absorption minima per curve, annotates them in *)
(* guess mode or auto mode, saves the figure and writes a peak summary.    *)
(*                                                                         *)
(* Numbers: transmittance is kept in integer units of 1/Scale, so that     *)
(* "1.0 - tr" is Scale - tr and a prominence of 0.01 is 10 units.          *)
(* Sequences are 1-based: sample index k of the model is index k-1 of the  *)
(* numpy arrays.                                                           *)
(***************************************************************************)
EXTENDS Integers, Sequences, FiniteSets, TLC

\* ------------------------------------------------------------------ bounds
MaxRows == 5            \* data rows of a file in the curve family
MaxT == 2               \* transmittance levels 0..MaxT in the curve family
MaxProminence == 2      \* PEAK_PROMINENCE ranges over 0..MaxProminence
MaxPeaksPerCurve == 2   \* PEAKS_PER_CURVE ranges over -1..MaxPeaksPerCurve
MaxEnvLen == 4          \* characters of TARGET_GUESSES
MaxFiles == 2           \* files under INPUT_DIR in the pipeline family

\* the value 1.0 of "1.0 - tr", in model units
Scale == 1000

\* ----------------------------------------------------------------- helpers
Min2(a, b) == IF a <= b THEN a ELSE b
Max2(a, b) == IF a >= b THEN a ELSE b
Abs(a) == IF a >= 0 THEN a ELSE -a

SeqsUpTo(S, n) == UNION {[1..k -> S] : k \in 0..n}

Reverse(s) == [k \in 1..Len(s) |-> s[Len(s) + 1 - k]]

Take(s, n) == SubSeq(s, 1, Min2(n, Len(s)))

\* ------------------------------------------------- _find_minima (find_peaks)
\* inverted = 1.0 - tr
Inverted(tr) == [k \in 1..Len(tr) |-> Scale - tr[k]]

\* first index at or after a where the plateau of height h ends, stopping at
\* the last sample (the inner while loop of the local-maxima scan)
RECURSIVE PlateauEnd(_, _, _)
PlateauEnd(x, a, h) ==
    IF a < Len(x) /\ x[a] = h THEN PlateauEnd(x, a + 1, h) ELSE a

\* the local maxima of x, scanning from sample i: a sample (or the middle of a
\* flat run) that rises from its left neighbour and falls to its right one
RECURSIVE LocalMaxima(_, _)
LocalMaxima(x, i) ==
    IF i >= Len(x) THEN <<>>
    ELSE IF x[i - 1] < x[i]
         THEN LET ahead == PlateauEnd(x, i + 1, x[i])
              IN  IF x[ahead] < x[i]
                  THEN <<(i + ahead - 1) \div 2>> \o LocalMaxima(x, ahead + 1)
                  ELSE LocalMaxima(x, i + 1)
         ELSE LocalMaxima(x, i + 1)

\* lowest value met walking from sample i in direction d (-1 left, +1 right)
\* while the samples are not higher than the peak of height h
RECURSIVE BaseMin(_, _, _, _, _)
BaseMin(x, i, d, h, lo) ==
    IF i >= 1 /\ i <= Len(x) /\ x[i] <= h
    THEN BaseMin(x, i + d, d, h, Min2(lo, x[i]))
    ELSE lo

Prominence(x, p) ==
    x[p] - Max2(BaseMin(x, p, -1, x[p], x[p]), BaseMin(x, p, 1, x[p], x[p]))

\* mutant: the prominence condition is not applied
MutKeepAll(x, peaks, prominence) == peaks

KeepProminent(x, peaks, prominence) ==
    SelectSeq(peaks, LAMBDA p : prominence <= Prominence(x, p))

FindPeaks(x, prominence) == KeepProminent(x, LocalMaxima(x, 2), prominence)

\* mutant: the signal is padded with a zero at both ends before the search, so
\* that a dip at an end of the curve counts
MutFindMinimaPadded(tr, prominence) ==
    LET padded == FindPeaks(<<0>> \o Inverted(tr) \o <<0>>, prominence)
    IN  [k \in 1..Len(padded) |-> padded[k] - 1]

FindMinima(tr, prominence) == FindPeaks(Inverted(tr), prominence)

\* --------------------------------------------- TARGET_GUESSES (lines 36-47)
\* A string is a sequence of one-character strings.
Whitespace == {" "}
Delimiters == {",", ";"} \cup Whitespace          \* the class [,\s;]
Digits == {"0", "1", "2", "3", "4", "5", "6", "7", "8", "9"}

DigitVal(c) ==
    CASE c = "0" -> 0 [] c = "1" -> 1 [] c = "2" -> 2 [] c = "3" -> 3
      [] c = "4" -> 4 [] c = "5" -> 5 [] c = "6" -> 6 [] c = "7" -> 7
      [] c = "8" -> 8 [] c = "9" -> 9

\* str.strip()
RECURSIVE LStrip(_)
LStrip(s) == IF s # <<>> /\ Head(s) \in Whitespace THEN LStrip(Tail(s)) ELSE s

Strip(s) == Reverse(LStrip(Reverse(LStrip(s))))

\* re.split(r"[,\s;]+", s): the pieces between runs of delimiters, an empty
\* piece where the string starts or ends with a run. cur is the piece being
\* read, inRun tells that the previous character was a delimiter.
RECURSIVE SplitFrom(_, _, _)
SplitFrom(s, cur, inRun) ==
    IF s = <<>> THEN <<cur>>
    ELSE IF Head(s) \in Delimiters
         THEN IF inRun THEN SplitFrom(Tail(s), cur, TRUE)
                       ELSE <<cur>> \o SplitFrom(Tail(s), <<>>, TRUE)
         ELSE SplitFrom(Tail(s), Append(cur, Head(s)), FALSE)

ReSplit(s) == SplitFrom(s, <<>>, FALSE)

\* float(tok) succeeds on the tokens of the model's alphabet that are all digits
IsFloat(tok) == tok # <<>> /\ \A k \in 1..Len(tok) : tok[k] \in Digits

RECURSIVE FloatOf(_)
FloatOf(tok) ==
    IF tok = <<>> THEN 0
    ELSE 10 * FloatOf(SubSeq(tok, 1, Len(tok) - 1)) + DigitVal(tok[Len(tok)])

\* mutant: the ValueError of a malformed token ends the loop
RECURSIVE MutAppendFloatsStop(_)
MutAppendFloatsStop(toks) ==
    IF toks = <<>> THEN <<>>
    ELSE IF Head(toks) = <<>> THEN MutAppendFloatsStop(Tail(toks))
         ELSE IF IsFloat(Head(toks))
              THEN <<FloatOf(Head(toks))>> \o MutAppendFloatsStop(Tail(toks))
              ELSE <<>>

\* the for loop: empty pieces are skipped, a ValueError is passed over
RECURSIVE AppendFloats(_)
AppendFloats(toks) ==
    IF toks = <<>> THEN <<>>
    ELSE IF Head(toks) # <<>> /\ IsFloat(Head(toks))
         THEN <<FloatOf(Head(toks))>> \o AppendFloats(Tail(toks))
         ELSE AppendFloats(Tail(toks))

\* None is the empty sequence: an empty list is replaced by None (line 47) and
\* the only later use is the truth test of line 123.
ParseGuesses(env) ==
    IF Strip(env) = <<>> THEN <<>> ELSE AppendFloats(ReSplit(Strip(env)))

\* ------------------------------------------------ file discovery (lines 92-93)
Names == {"a.csv", "B.csv", "b.csv", "sample.csv"}

\* os.path.basename(p).lower()
Lower(name) == IF name = "B.csv" THEN "b.csv" ELSE name

\* position of a lower-cased name in string order
StrRank(key) == CASE key = "a.csv" -> 1 [] key = "b.csv" -> 2 [] key = "sample.csv" -> 3

KeyLess(f, g) == StrRank(Lower(f.name)) < StrRank(Lower(g.name))

\* sorted(..., key=...) is stable: f goes after every element not greater than it
RECURSIVE InsertByKey(_, _)
InsertByKey(sorted, f) ==
    IF sorted = <<>> THEN <<f>>
    ELSE IF KeyLess(f, Head(sorted)) THEN <<f>> \o sorted
         ELSE <<Head(sorted)>> \o InsertByKey(Tail(sorted), f)

RECURSIVE SortedByKey(_)
SortedByKey(fs) ==
    IF fs = <<>> THEN <<>>
    ELSE InsertByKey(SortedByKey(SubSeq(fs, 1, Len(fs) - 1)), fs[Len(fs)])

\* ---------------------------------------------------- _read_csv_any (53-77)
\* A file is [name, sep, ncols, header, rows]: rows are its numeric lines of
\* ncols cells each, header tells whether a line of column titles precedes
\* them, sep is the delimiter it is written with.

\* pd.read_csv(path, sep=s) raises on a file without any line
ReadFails(f) == ~f.header /\ f.rows = <<>>

\* the columns read_csv sees with delimiter s
ColumnsSeen(f, s) == IF f.sep = s THEN f.ncols ELSE 1

\* the rows of the frame: header=0 is the default, so the first line of the
\* file gives the column labels whatever it holds
FrameRows(f) == IF f.header THEN f.rows ELSE Tail(f.rows)

\* _clean: the first two columns; it raises when there is one column only
\* (two labels are assigned to one column)
CleanFails(f, s) == ColumnsSeen(f, s) < 2

Clean(f) == [k \in 1..Len(FrameRows(f)) |-> SubSeq(FrameRows(f)[k], 1, 2)]

\* the first attempt (comma) fails and the second (semicolon) fails too
ReadCsvAnyFails(f) ==
    \/ ReadFails(f)
    \/ ColumnsSeen(f, ",") < 2 /\ CleanFails(f, ";")

ReadCsvAny(f) == Clean(f)

\* df.sort_values("wavenumber", ascending=False): rows of distinct wavenumber
RECURSIVE InsertDesc(_, _)
InsertDesc(sorted, r) ==
    IF sorted = <<>> THEN <<r>>
    ELSE IF r[1] > Head(sorted)[1] THEN <<r>> \o sorted
         ELSE <<Head(sorted)>> \o InsertDesc(Tail(sorted), r)

RECURSIVE SortDesc(_)
SortDesc(rows) ==
    IF rows = <<>> THEN <<>>
    ELSE InsertDesc(SortDesc(SubSeq(rows, 1, Len(rows) - 1)), rows[Len(rows)])

Column(rows, c) == [k \in 1..Len(rows) |-> rows[k][c]]

LoadCurve(f) ==
    LET df == SortDesc(ReadCsvAny(f))
    IN  [name |-> f.name, wn |-> Column(df, 1), tr |-> Column(df, 2)]

\* ------------------------------------------------ annotation (lines 88-151)
\* mutant: np.argmin(x - value), the absolute value forgotten
MutNearestIndexSigned(x, value) ==
    CHOOSE k \in 1..Len(x) :
        /\ \A j \in 1..Len(x) : x[k] - value <= x[j] - value
        /\ \A j \in 1..(k - 1) : x[j] - value > x[k] - value

\* np.argmin(np.abs(x - value)): the first position of the least distance
NearestIndex(x, value) ==
    CHOOSE k \in 1..Len(x) :
        /\ \A j \in 1..Len(x) : Abs(x[k] - value) <= Abs(x[j] - value)
        /\ \A j \in 1..(k - 1) : Abs(x[j] - value) > Abs(x[k] - value)

\* the sample picked for one guess (line 128)
Nearest(wn, peaks, guess) ==
    peaks[NearestIndex([k \in 1..Len(peaks) |-> wn[peaks[k]]], guess)]

GuessRow(name, wn, tr, guess, nearest) ==
    [file |-> name, mode |-> "guess", guess_cm1 |-> <<guess>>,
     peak_cm1 |-> wn[nearest], transmittance |-> tr[nearest]]

AutoRow(name, wn, tr, idx) ==
    [file |-> name, mode |-> "auto", guess_cm1 |-> <<>>,
     peak_cm1 |-> wn[idx], transmittance |-> tr[idx]]

\* mutant: a guess is annotated only when its nearest minimum is within 10 cm-1
MutGuessPicksWithin(wn, peaks, guesses) ==
    IF peaks = <<>> THEN <<>>
    ELSE LET all == [g \in 1..Len(guesses) |-> Nearest(wn, peaks, guesses[g])]
             near == {g \in 1..Len(guesses) : Abs(wn[all[g]] - guesses[g]) <= 10}
         IN  [k \in 1..Cardinality(near) |->
                 all[CHOOSE g \in near : Cardinality({h \in near : h < g}) = k - 1]]

\* the samples picked in guess mode, one per guess, none without minima
GuessPicks(wn, peaks, guesses) ==
    IF peaks = <<>> THEN <<>>
    ELSE [g \in 1..Len(guesses) |-> Nearest(wn, peaks, guesses[g])]

\* depths = 1.0 - tr[peak_idx]
Depths(tr, peaks) == [k \in 1..Len(peaks) |-> Scale - tr[peaks[k]]]

\* np.argsort(depths): a permutation that puts the depths in ascending order.
\* The default sort kind is not stable, so equal depths come in any order.
ArgSorts(depths) ==
    {p \in [1..Len(depths) -> 1..Len(depths)] :
        /\ \A a, b \in 1..Len(depths) : a # b => p[a] # p[b]
        /\ \A a \in 1..(Len(depths) - 1) : depths[p[a]] <= depths[p[a + 1]]}

\* mutant: the slice [:PEAKS_PER_CURVE] forgotten
MutAutoPicksNoSlice(peaks, argsort, peaksPerCurve) ==
    IF peaks # <<>> /\ peaksPerCurve > 0
    THEN [k \in 1..Len(argsort) |-> peaks[Reverse(argsort)[k]]]
    ELSE <<>>

\* mutant: the reversal [::-1] forgotten, the shallowest minima come first
MutAutoPicksAscending(peaks, argsort, peaksPerCurve) ==
    IF peaks # <<>> /\ peaksPerCurve > 0
    THEN LET order == Take(argsort, peaksPerCurve)
         IN  [k \in 1..Len(order) |-> peaks[order[k]]]
    ELSE <<>>

\* peak_idx[np.argsort(depths)[::-1][:PEAKS_PER_CURVE]]
AutoPicks(peaks, argsort, peaksPerCurve) ==
    IF peaks # <<>> /\ peaksPerCurve > 0
    THEN LET order == Take(Reverse(argsort), peaksPerCurve)
         IN  [k \in 1..Len(order) |-> peaks[order[k]]]
    ELSE <<>>

\* ------------------------------------------------------------------- state
VARIABLES
    INPUT_DIR,          \* os.getenv("INPUT_DIR", "").strip(): "" when unset
    guess_env,          \* os.getenv("TARGET_GUESSES", ""), before strip()
    PEAK_PROMINENCE,
    PEAKS_PER_CURVE,
    found,              \* what glob returns under INPUT_DIR, in its order
    TARGET_GUESSES,
    out_dir,            \* whether results/plots has been created
    csv_files,
    curves,
    i,                  \* the curves annotated so far (loop index of line 112)
    peak_idx,           \* the minima of the curve annotated last
    peak_rows,
    picked,             \* per row of peak_rows: <<curve, sample>> it was made from
    png,                \* how many times the figure file was written
    summary,            \* the contents written to the peak-summary file, in order
    pc,
    error

vars == <<INPUT_DIR, guess_env, PEAK_PROMINENCE, PEAKS_PER_CURVE, found,
          TARGET_GUESSES, out_dir, csv_files, curves, i, peak_idx, peak_rows,
          picked, png, summary, pc, error>>

inputs == <<INPUT_DIR, guess_env, PEAK_PROMINENCE, PEAKS_PER_CURVE, found>>

\* ------------------------------------------------------------------ inputs
\* wavenumber of the k-th of n samples listed from high to low
Grid(n, k) == 2 * (n + 1 - k)

\* a two-column comma file with a title line whose curve has transmittance t
CurveFile(t) ==
    [name |-> "a.csv", sep |-> ",", ncols |-> 2, header |-> TRUE,
     rows |-> [k \in 1..Len(t) |-> <<Grid(Len(t), k), t[k]>>]]

\* the file of the worked example: three lines, no title line
SampleRows == <<<<4000, 950>>, <<3500, 400>>, <<3000, 920>>>>

\* contents of the files of the pipeline family: nothing, one dip, and two
\* dips of equal depth listed from low to high wavenumber
PipeRows ==
    {<<>>,
     <<<<6, 2>>, <<4, 0>>, <<2, 2>>>>,
     <<<<2, 2>>, <<4, 1>>, <<6, 2>>, <<8, 1>>, <<10, 2>>>>}

OneColumn(rows) == [k \in 1..Len(rows) |-> <<rows[k][1]>>]

\* two-column files in either delimiter with or without a title line, and
\* one-column files
PipeFiles ==
    {[name |-> n, sep |-> s, ncols |-> 2, header |-> h, rows |-> r] :
        n \in Names \ {"sample.csv"}, s \in {",", ";"}, h \in BOOLEAN, r \in PipeRows}
    \cup
    {[name |-> n, sep |-> ",", ncols |-> 1, header |-> TRUE, rows |-> OneColumn(r)] :
        n \in Names \ {"sample.csv"}, r \in PipeRows \ {<<>>}}

DistinctNames(fs) == \A a, b \in 1..Len(fs) : a # b => fs[a].name # fs[b].name

\* every character TARGET_GUESSES is made of in the configuration family
EnvAlphabet == {"1", "7", "x", ",", " "}

\* TARGET_GUESSES in the curve family: guesses 5 and 7 between the samples
GuessAlphabet == {"5", "7", ","}

TwoDips == <<2, 0, 2, 1, 2>>

InitProgram ==
    /\ TARGET_GUESSES = <<>>
    /\ out_dir = FALSE
    /\ csv_files = <<>>
    /\ curves = <<>>
    /\ i = 0
    /\ peak_idx = <<>>
    /\ peak_rows = <<>>
    /\ picked = <<>>
    /\ png = 0
    /\ summary = <<>>
    /\ pc = "input_dir"
    /\ error = "none"

\* one curve, every shape, annotated in auto mode
InitAutoCurve ==
    /\ INPUT_DIR = "data"
    /\ guess_env = <<>>
    /\ PEAK_PROMINENCE \in 0..MaxProminence
    /\ PEAKS_PER_CURVE \in (-1)..MaxPeaksPerCurve
    /\ \E t \in SeqsUpTo(0..MaxT, MaxRows) : found = <<CurveFile(t)>>

\* one curve, every set of minima, annotated in guess mode
InitGuessCurve ==
    /\ INPUT_DIR = "data"
    /\ guess_env \in SeqsUpTo(GuessAlphabet, MaxEnvLen)
    /\ PEAK_PROMINENCE = 1
    /\ PEAKS_PER_CURVE = 5
    /\ \E t \in SeqsUpTo(0..1, MaxRows) : found = <<CurveFile(t)>>

\* every TARGET_GUESSES string, two curves
InitConfig ==
    /\ INPUT_DIR = "data"
    /\ guess_env \in SeqsUpTo(EnvAlphabet, MaxEnvLen)
    /\ PEAK_PROMINENCE = 1
    /\ PEAKS_PER_CURVE = 5
    /\ found = <<CurveFile(TwoDips), [CurveFile(<<1, 0, 1>>) EXCEPT !.name = "b.csv"]>>

\* INPUT_DIR is not set
InitUnset ==
    /\ INPUT_DIR = ""
    /\ guess_env \in {<<>>, <<"7">>}
    /\ PEAK_PROMINENCE = 1
    /\ PEAKS_PER_CURVE = 5
    /\ found \in {<<>>, <<CurveFile(TwoDips)>>}

\* any files under INPUT_DIR, in any order
InitPipeline ==
    /\ INPUT_DIR = "data"
    /\ guess_env \in {<<>>, <<"7">>, <<"5", ",", "7">>}
    /\ PEAK_PROMINENCE = 1
    /\ PEAKS_PER_CURVE \in {1, 5}
    /\ found \in {fs \in SeqsUpTo(PipeFiles, MaxFiles) : DistinctNames(fs)}

\* the worked example and its variants
InitSample ==
    /\ INPUT_DIR = "data"
    /\ guess_env = <<>>
    /\ PEAK_PROMINENCE = 10
    /\ PEAKS_PER_CURVE = 1
    /\ \E s \in {",", ";"}, h \in BOOLEAN :
          found = <<[name |-> "sample.csv", sep |-> s, ncols |-> 2,
                     header |-> h, rows |-> SampleRows]>>

Init ==
    /\ InitProgram
    /\ \/ InitAutoCurve
       \/ InitGuessCurve
       \/ InitConfig
       \/ InitUnset
       \/ InitPipeline
       \/ InitSample

\* ----------------------------------------------------------------- actions
Halt(e) ==
    /\ pc' = "halted"
    /\ error' = e

\* lines 28-30
CheckInputDir ==
    /\ pc = "input_dir"
    /\ IF INPUT_DIR = ""
       THEN Halt("RuntimeError")
       ELSE pc' = "config" /\ UNCHANGED error
    /\ UNCHANGED <<inputs, TARGET_GUESSES, out_dir, csv_files, curves, i,
                   peak_idx, peak_rows, picked, png, summary>>

\* lines 32-50
Configure ==
    /\ pc = "config"
    /\ TARGET_GUESSES' = ParseGuesses(guess_env)
    /\ out_dir' = TRUE
    /\ pc' = "gather"
    /\ UNCHANGED <<inputs, csv_files, curves, i, peak_idx, peak_rows, picked,
                   png, summary, error>>

\* lines 92-96
GatherFiles ==
    /\ pc = "gather"
    /\ csv_files' = SortedByKey(found)
    /\ IF found = <<>>
       THEN Halt("FileNotFoundError")
       ELSE pc' = "load" /\ UNCHANGED error
    /\ UNCHANGED <<inputs, TARGET_GUESSES, out_dir, curves, i, peak_idx,
                   peak_rows, picked, png, summary>>

\* mutant: a file that does not parse is skipped and the run goes on
MutLoadFileSkip ==
    /\ pc = "load"
    /\ Len(curves) < Len(csv_files)
    /\ LET f == csv_files[Len(curves) + 1]
       IN  IF ReadCsvAnyFails(f)
           THEN /\ csv_files' = SubSeq(csv_files, 1, Len(curves)) \o
                                 SubSeq(csv_files, Len(curves) + 2, Len(csv_files))
                /\ UNCHANGED curves
           ELSE curves' = Append(curves, LoadCurve(f)) /\ UNCHANGED csv_files
    /\ UNCHANGED <<inputs, TARGET_GUESSES, out_dir, i, peak_idx, peak_rows,
                   picked, png, summary, pc, error>>

\* lines 100-105, one file per step
LoadFile ==
    /\ pc = "load"
    /\ Len(curves) < Len(csv_files)
    /\ LET f == csv_files[Len(curves) + 1]
       IN  IF ReadCsvAnyFails(f)
           THEN Halt("ParseError") /\ UNCHANGED curves
           ELSE curves' = Append(curves, LoadCurve(f)) /\ UNCHANGED <<pc, error>>
    /\ UNCHANGED <<inputs, TARGET_GUESSES, out_dir, csv_files, i, peak_idx,
                   peak_rows, picked, png, summary>>

\* lines 108-110
StartPlot ==
    /\ pc = "load"
    /\ Len(curves) = Len(csv_files)
    /\ pc' = "plot"
    /\ UNCHANGED <<inputs, TARGET_GUESSES, out_dir, csv_files, curves, i,
                   peak_idx, peak_rows, picked, png, summary, error>>

\* lines 112-135, one curve per step, when TARGET_GUESSES is a non-empty list
AnnotateGuess ==
    /\ pc = "plot"
    /\ i < Len(curves)
    /\ TARGET_GUESSES # <<>>
    /\ LET c == curves[i + 1]
           peaks == FindMinima(c.tr, PEAK_PROMINENCE)
           picks == GuessPicks(c.wn, peaks, TARGET_GUESSES)
       IN  /\ peak_idx' = peaks
           /\ peak_rows' = peak_rows \o
                 [g \in 1..Len(picks) |->
                     GuessRow(c.name, c.wn, c.tr, TARGET_GUESSES[g], picks[g])]
           /\ picked' = picked \o [g \in 1..Len(picks) |-> <<i + 1, picks[g]>>]
    /\ i' = i + 1
    /\ UNCHANGED <<inputs, TARGET_GUESSES, out_dir, csv_files, curves, png,
                   summary, pc, error>>

\* lines 112-122 and 136-151, one curve per step, when TARGET_GUESSES is None
AnnotateAuto ==
    /\ pc = "plot"
    /\ i < Len(curves)
    /\ TARGET_GUESSES = <<>>
    /\ LET c == curves[i + 1]
           peaks == FindMinima(c.tr, PEAK_PROMINENCE)
       IN  /\ peak_idx' = peaks
           /\ \E argsort \in ArgSorts(Depths(c.tr, peaks)) :
                 LET picks == AutoPicks(peaks, argsort, PEAKS_PER_CURVE)
                 IN  /\ peak_rows' = peak_rows \o
                           [k \in 1..Len(picks) |->
                               AutoRow(c.name, c.wn, c.tr, picks[k])]
                     /\ picked' = picked \o
                           [k \in 1..Len(picks) |-> <<i + 1, picks[k]>>]
    /\ i' = i + 1
    /\ UNCHANGED <<inputs, TARGET_GUESSES, out_dir, csv_files, curves, png,
                   summary, pc, error>>

\* lines 153-165
SaveFigure ==
    /\ pc = "plot"
    /\ i = Len(curves)
    /\ png' = png + 1
    /\ pc' = "summary"
    /\ UNCHANGED <<inputs, TARGET_GUESSES, out_dir, csv_files, curves, i,
                   peak_idx, peak_rows, picked, summary, error>>

\* mutant: the summary is written whether or not there are annotations
MutWriteSummaryAlways ==
    /\ pc = "summary"
    /\ summary' = Append(summary, peak_rows)
    /\ pc' = "done"
    /\ UNCHANGED <<inputs, TARGET_GUESSES, out_dir, csv_files, curves, i,
                   peak_idx, peak_rows, picked, png, error>>

\* lines 168-172
WriteSummary ==
    /\ pc = "summary"
    /\ summary' = IF peak_rows # <<>> THEN Append(summary, peak_rows) ELSE summary
    /\ pc' = "done"
    /\ UNCHANGED <<inputs, TARGET_GUESSES, out_dir, csv_files, curves, i,
                   peak_idx, peak_rows, picked, png, error>>

Next ==
    \/ CheckInputDir
    \/ Configure
    \/ GatherFiles
    \/ LoadFile
    \/ StartPlot
    \/ AnnotateGuess
    \/ AnnotateAuto
    \/ SaveFigure
    \/ WriteSummary

Spec == Init /\ [][Next]_vars

\* ------------------------------------------------- vocabulary of the claims
Range(q) == {q[k] : k \in 1..Len(q)}

SetMax(S) == CHOOSE a \in S : \A b \in S : b <= a
SetMin(S) == CHOOSE a \in S : \A b \in S : a <= b

\* the minima the detector reports for curve c
Minima(c) == FindMinima(curves[c].tr, PEAK_PROMINENCE)

\* depth of sample k of curve c
Depth(c, k) == Scale - curves[c].tr[k]

\* positions in peak_rows of the annotations of curve c
RowsAt(c) == {j \in 1..Len(peak_rows) : picked[j][1] = c}

\* the samples annotated for curve c, in the order of peak_rows
PickedOf(c) ==
    LET at == RowsAt(c)
    IN  [k \in 1..Cardinality(at) |-> picked[SetMin(at) + k - 1][2]]

\* the rows of curve c, in the order of peak_rows
RowsOf(c) ==
    LET at == RowsAt(c)
    IN  [k \in 1..Cardinality(at) |-> peak_rows[SetMin(at) + k - 1]]

GuessMode == TARGET_GUESSES # <<>>

\* lines 32-50 have run
Configured == out_dir

\* ---------------------------------------------------------------------- C1
\* C1: in guess mode every annotation of a curve with detected minima has as
\* peak wavenumber the wavenumber of a detected minimum of that curve, and no
\* detected minimum of the curve is strictly closer to the annotation's guess.
C1_GuessNearest ==
    \A j \in 1..Len(peak_rows) :
        peak_rows[j].mode = "guess" =>
            LET c == picked[j][1]
                g == peak_rows[j].guess_cm1[1]
                wn == curves[c].wn
            IN  /\ \E m \in Range(Minima(c)) : wn[m] = peak_rows[j].peak_cm1
                /\ \A m \in Range(Minima(c)) :
                      Abs(wn[m] - g) >= Abs(peak_rows[j].peak_cm1 - g)

\* a guess annotated with a minimum that is not the first nor the last detected
\* and strictly nearer than both
C1_Witness ==
    \E j \in 1..Len(peak_rows) :
        /\ peak_rows[j].mode = "guess"
        /\ \E c \in 1..i :
              /\ picked[j][1] = c
              /\ Len(Minima(c)) >= 2
              /\ picked[j][2] # Minima(c)[1]
              /\ \E m \in Range(Minima(c)) :
                    Abs(curves[c].wn[m] - peak_rows[j].guess_cm1[1])
                        > Abs(peak_rows[j].peak_cm1 - peak_rows[j].guess_cm1[1])

\* ---------------------------------------------------------------------- C2
AutoDepthsNonIncreasing(c) ==
    \A k \in 1..(Len(RowsOf(c)) - 1) :
        Scale - RowsOf(c)[k].transmittance >= Scale - RowsOf(c)[k + 1].transmittance

\* C2 as stated: in auto mode every curve gets min(PeaksPerCurve, number of
\* detected minima) annotations, of non-increasing depth in selection order.
C2_Original ==
    \A c \in 1..i :
        ~GuessMode =>
            /\ Cardinality(RowsAt(c)) = Min2(PEAKS_PER_CURVE, Len(Minima(c)))
            /\ AutoDepthsNonIncreasing(c)

\* C2 amended: in auto mode every curve gets min(max(PeaksPerCurve, 0), number
\* of detected minima) annotations, of non-increasing depth in selection order.
C2_AutoCount ==
    \A c \in 1..i :
        ~GuessMode =>
            /\ Cardinality(RowsAt(c)) =
                  Min2(Max2(PEAKS_PER_CURVE, 0), Len(Minima(c)))
            /\ AutoDepthsNonIncreasing(c)

\* a curve with more minima than PEAKS_PER_CURVE, annotated with two minima
\* of different depth
C2_Witness ==
    \E c \in 1..i :
        /\ ~GuessMode
        /\ Len(RowsOf(c)) = 2
        /\ RowsOf(c)[1].transmittance < RowsOf(c)[2].transmittance
        /\ PEAKS_PER_CURVE = 2

\* ---------------------------------------------------------------------- C3
\* positions a < b in the detector's output whose minima have the same depth
Ties(c) ==
    {ab \in (1..Len(Minima(c))) \X (1..Len(Minima(c))) :
        /\ ab[1] < ab[2]
        /\ Depth(c, Minima(c)[ab[1]]) = Depth(c, Minima(c)[ab[2]])}

\* position of sample m among the annotations of curve c, 0 when absent
RankOf(c, m) ==
    IF m \in Range(PickedOf(c))
    THEN CHOOSE k \in 1..Len(PickedOf(c)) : PickedOf(c)[k] = m
    ELSE 0

\* C3 as stated: of two detected minima of equal depth the one detected first
\* is ranked first, and is the one annotated when only one of them is.
C3_Original ==
    \A c \in 1..i :
        ~GuessMode =>
            \A ab \in Ties(c) :
                LET first == Minima(c)[ab[1]]
                    second == Minima(c)[ab[2]]
                IN  RankOf(c, second) # 0 =>
                        /\ RankOf(c, first) # 0
                        /\ RankOf(c, first) < RankOf(c, second)

\* C3 amended: detection order does not decide between minima of equal depth;
\* what the ranking guarantees is that a detected minimum of strictly greater
\* depth is ranked before, and annotated in preference to, one of lesser depth.
C3_DeeperFirst ==
    \A c \in 1..i :
        ~GuessMode =>
            \A a, b \in Range(Minima(c)) :
                (Depth(c, a) > Depth(c, b) /\ RankOf(c, b) # 0) =>
                    /\ RankOf(c, a) # 0
                    /\ RankOf(c, a) < RankOf(c, b)

\* two minima of equal depth of which the one detected last is the only one
\* annotated
C3_Witness ==
    \E c \in 1..i :
        /\ ~GuessMode
        /\ PEAKS_PER_CURVE = 1
        /\ \E ab \in Ties(c) :
              /\ RankOf(c, Minima(c)[ab[2]]) = 1
              /\ RankOf(c, Minima(c)[ab[1]]) = 0

\* ---------------------------------------------------------------------- C4
\* C4: sample.csv with the three comma-delimited lines (4000, 0.95),
\* (3500, 0.40), (3000, 0.92), PEAK_PROMINENCE 0.01, PEAKS_PER_CURVE 1 and no
\* guesses ends with exactly one annotation: sample.csv, auto, 3500.
C4_Sample ==
    ( /\ pc = "done"
      /\ found = <<[name |-> "sample.csv", sep |-> ",", ncols |-> 2,
                    header |-> FALSE, rows |-> SampleRows]>>
      /\ PEAK_PROMINENCE = 10
      /\ PEAKS_PER_CURVE = 1
      /\ guess_env = <<>> )
    => peak_rows = <<[file |-> "sample.csv", mode |-> "auto", guess_cm1 |-> <<>>,
                      peak_cm1 |-> 3500, transmittance |-> 400]>>

\* ---------------------------------------------------------------------- C5
\* the tokens of a string: the maximal runs <<a, b>> of characters that are
\* not delimiters
TokenSpans(env) ==
    {ab \in (1..Len(env)) \X (1..Len(env)) :
        /\ ab[1] <= ab[2]
        /\ \A k \in ab[1]..ab[2] : env[k] \notin Delimiters
        /\ ab[1] = 1 \/ env[ab[1] - 1] \in Delimiters
        /\ ab[2] = Len(env) \/ env[ab[2] + 1] \in Delimiters}

\* the tokens that read as a number
FloatSpans(env) ==
    {ab \in TokenSpans(env) : \A k \in ab[1]..ab[2] : env[k] \in Digits}

RECURSIVE Pow10(_)
Pow10(n) == IF n = 0 THEN 1 ELSE 10 * Pow10(n - 1)

\* the number written in positions a..b
RECURSIVE Decimal(_, _, _)
Decimal(env, a, b) ==
    IF a > b THEN 0
    ELSE DigitVal(env[a]) * Pow10(b - a) + Decimal(env, a + 1, b)

\* the run cannot go on: no INPUT_DIR, no file, or a file no delimiter reads
BadInput ==
    \/ INPUT_DIR = ""
    \/ found = <<>>
    \/ \E k \in 1..Len(found) : ReadCsvAnyFails(found[k])

\* C5: once configured, TARGET_GUESSES holds the values of the tokens of the
\* environment string that read as a number, in their order, the others being
\* dropped; every annotation of the run is in guess mode if there is such a
\* token and in auto mode otherwise; and no halt comes from the string.
C5_ModeFixed ==
    Configured =>
        /\ Len(TARGET_GUESSES) = Cardinality(FloatSpans(guess_env))
        /\ \A ab \in FloatSpans(guess_env) :
              TARGET_GUESSES[1 + Cardinality({q \in FloatSpans(guess_env) : q[1] < ab[1]})]
                  = Decimal(guess_env, ab[1], ab[2])
        /\ \A j \in 1..Len(peak_rows) :
              peak_rows[j].mode =
                  IF FloatSpans(guess_env) # {} THEN "guess" ELSE "auto"
        /\ pc = "halted" => BadInput

\* a malformed token before a valid one: the valid one is kept and both curves
\* of the run are annotated in guess mode
C5_Witness ==
    /\ pc = "done"
    /\ TokenSpans(guess_env) # FloatSpans(guess_env)
    /\ \E ab \in FloatSpans(guess_env) :
          \E q \in TokenSpans(guess_env) \ FloatSpans(guess_env) : q[1] < ab[1]
    /\ \E j, k \in 1..Len(peak_rows) :
          /\ picked[j][1] # picked[k][1]
          /\ peak_rows[j].mode = "guess"
          /\ peak_rows[k].mode = "guess"

\* ---------------------------------------------------------------------- C6
\* C6: in guess mode a curve without detected minimum gets no annotation and
\* the run goes on; a curve with a detected minimum gets one annotation per
\* guess, in guess order, whatever the distance.
C6_GuessPerCurve ==
    /\ \A c \in 1..i :
          GuessMode =>
              /\ Len(RowsOf(c)) = IF Minima(c) = <<>> THEN 0 ELSE Len(TARGET_GUESSES)
              /\ \A k \in 1..Len(RowsOf(c)) :
                    /\ RowsOf(c)[k].mode = "guess"
                    /\ RowsOf(c)[k].guess_cm1 = <<TARGET_GUESSES[k]>>
    /\ (GuessMode /\ i >= 1) => error = "none"

\* two different guesses, one of them far from every sample, annotated with
\* the same minimum
C6_Witness ==
    \E c \in 1..i :
        /\ GuessMode
        /\ Len(RowsOf(c)) = 2
        /\ RowsOf(c)[1].guess_cm1 # RowsOf(c)[2].guess_cm1
        /\ PickedOf(c)[1] = PickedOf(c)[2]
        /\ \E k \in 1..2 :
              Abs(RowsOf(c)[k].peak_cm1 - RowsOf(c)[k].guess_cm1[1]) > 50

\* ---------------------------------------------------------------------- C7
\* C7: with INPUT_DIR unset the run halts at the first check, with no CSV file
\* found it halts at discovery, and a file that parses under neither delimiter
\* halts it when its turn comes, the files after it never being loaded; so
\* with any of these the run never reaches the plot, and neither the figure
\* nor the peak summary is written.
C7_HaltBeforeOutput ==
    /\ pc \notin {"input_dir", "halted"} => INPUT_DIR # ""
    /\ pc \in {"load", "plot", "summary", "done"} => found # <<>>
    /\ \A k \in 1..Len(curves) : ~ReadCsvAnyFails(csv_files[k])
    /\ BadInput =>
          /\ pc \in {"input_dir", "config", "gather", "load", "halted"}
          /\ png = 0
          /\ summary = <<>>
          /\ peak_rows = <<>>
    /\ pc = "halted" =>
          /\ BadInput
          /\ error = IF INPUT_DIR = "" THEN "RuntimeError"
                     ELSE IF found = <<>> THEN "FileNotFoundError"
                     ELSE "ParseError"

\* a file that parses is loaded, the next one does not parse, the run halts
C7_Witness ==
    /\ pc = "halted"
    /\ error = "ParseError"
    /\ Len(curves) = 1
    /\ Len(csv_files) = 2
    /\ png = 0
    /\ summary = <<>>

\* ---------------------------------------------------------------------- C8
\* C8: the peak summary is written at most once, only after the figure, and at
\* the end of the run it exists exactly when there are annotations; it holds
\* the annotations in the order produced: curves in the order of the file
\* names sorted by lower-cased name, and within a curve in guess order or in
\* order of non-increasing depth.
C8_Summary ==
    /\ Len(summary) <= 1
    /\ summary # <<>> => png = 1 /\ summary[1] = peak_rows /\ peak_rows # <<>>
    /\ pc = "done" => (summary # <<>> <=> peak_rows # <<>>)
    /\ pc # "done" => summary = <<>>
    /\ \A a, b \in 1..Len(csv_files) :
          a < b => StrRank(Lower(csv_files[a].name)) <= StrRank(Lower(csv_files[b].name))
    /\ \A j \in 1..Len(peak_rows) :
          /\ peak_rows[j].file = csv_files[picked[j][1]].name
          /\ j > 1 => picked[j - 1][1] <= picked[j][1]
    /\ \A c \in 1..i :
          IF GuessMode
          THEN \A k \in 1..Len(RowsOf(c)) :
                  RowsOf(c)[k].guess_cm1 = <<TARGET_GUESSES[k]>>
          ELSE AutoDepthsNonIncreasing(c)

\* a summary with the annotations of two curves, two of them of one curve
C8_Witness ==
    /\ pc = "done"
    /\ Len(summary) = 1
    /\ \E j \in 1..(Len(summary[1]) - 2) :
          /\ summary[1][j].file # summary[1][j + 1].file
          /\ summary[1][j + 1].file = summary[1][j + 2].file

\* ---------------------------------------------------------------------- C9
\* p lies on a flat run of x that is strictly higher than both its neighbours
IsLocalMaximum(x, p) ==
    \E l \in 2..p, r \in p..(Len(x) - 1) :
        /\ \A k \in l..r : x[k] = x[p]
        /\ x[l - 1] < x[p]
        /\ x[r + 1] < x[p]

\* the drop from x[p] to the higher of the two lowest points met on the way
\* to the nearest strictly higher sample on each side, or to the end
TopographicProminence(x, p) ==
    LET higherL == {j \in 1..(p - 1) : x[j] > x[p]}
        higherR == {j \in (p + 1)..Len(x) : x[j] > x[p]}
        lo == IF higherL = {} THEN 1 ELSE SetMax(higherL) + 1
        hi == IF higherR = {} THEN Len(x) ELSE SetMin(higherR) - 1
    IN  x[p] - Max2(SetMin({x[k] : k \in lo..p}), SetMin({x[k] : k \in p..hi}))

\* C9: the indices the detector returns for a curve are strictly increasing and
\* each is a local maximum of 1 - transmittance whose topographic prominence is
\* at least the threshold.
C9_Detector ==
    i >= 1 =>
        LET x == [k \in 1..Len(curves[i].tr) |-> Scale - curves[i].tr[k]]
        IN  /\ \A k \in 1..(Len(peak_idx) - 1) : peak_idx[k] < peak_idx[k + 1]
            /\ \A p \in Range(peak_idx) :
                  /\ p \in 1..Len(x)
                  /\ IsLocalMaximum(x, p)
                  /\ TopographicProminence(x, p) >= PEAK_PROMINENCE

\* a curve with two dips of which only the more prominent one is returned
C9_Witness ==
    /\ i >= 1
    /\ Len(peak_idx) = 1
    /\ PEAK_PROMINENCE = 2
    /\ \E p \in 2..(Len(curves[i].tr) - 1) :
          /\ p \notin Range(peak_idx)
          /\ curves[i].tr[p - 1] > curves[i].tr[p]
          /\ curves[i].tr[p + 1] > curves[i].tr[p]

\* --------------------------------------------------------------------- C10
NonDecreasing(t) == \A k \in 1..(Len(t) - 1) : t[k] <= t[k + 1]
NonIncreasing(t) == \A k \in 1..(Len(t) - 1) : t[k] >= t[k + 1]

\* fewer than three samples, monotonic, or flat
NoInteriorDip(t) == Len(t) < 3 \/ NonDecreasing(t) \/ NonIncreasing(t)

\* C10: the detector never returns the first or the last sample, no
\* annotation refers to one, and a curve with fewer than three samples, a
\* monotonic or a flat curve gets no annotation, the run going on without
\* error.
C10_NoEndSample ==
    /\ i >= 1 => \A p \in Range(peak_idx) : 1 < p /\ p < Len(curves[i].tr)
    /\ \A j \in 1..Len(picked) :
          1 < picked[j][2] /\ picked[j][2] < Len(curves[picked[j][1]].tr)
    /\ \A c \in 1..i : NoInteriorDip(curves[c].tr) => RowsAt(c) = {}
    /\ i >= 1 => error = "none"
    /\ pc = "halted" => i = 0 /\ peak_rows = <<>>

\* a curve whose deepest dip is its last sample, annotated with another sample
C10_Witness ==
    \E c \in 1..i :
        LET t == curves[c].tr
        IN  /\ Len(t) >= 3
            /\ \A k \in 1..(Len(t) - 1) : t[k] > t[Len(t)]
            /\ RowsAt(c) # {}

====
